---- MODULE Spec2Model ----
(***************************************************************************)
(* Model of monkey_island/cc/services/attack/technique_reports/__init__.py *)
(* (class AttackTechnique): status resolution of an ATT&CK technique from  *)
(* the configuration and the telemetry collection, composition of the      *)
(* status message, and assembly of the report entry.                       *)
(*                                                                         *)
(* Strings are sequences of tokens; a token is a character of a message    *)
(* ("a", ".") or a literal fragment of the source that is never split.     *)
(* Python dicts keep insertion order: a dict is a sequence of <<key,       *)
(* value>> pairs with distinct keys.  An optional value (None or a value)  *)
(* is a record [some, val].                                                *)
(***************************************************************************)
EXTENDS Integers, Sequences, FiniteSets, TLC

\* ------------------------------------------------------------------ bounds
\* Longest telemetry collection explored.
MaxLog == 2
\* Longest unscanned_msg handed to _get_unscanned_msg_with_reasons.
MaxMsgLen == 3

\* --------------------------------------------------------- static data
\* The concrete technique classes (subclasses of AttackTechnique).
Tech == {"T1110", "T1154"}

\* ScanStatus (common.utils.attack_utils), by member name.
ScanStatus == {"UNSCANNED", "SCANNED", "USED", "DISABLED"}

\* relevant_systems of each technique class.
relevant_systems(t) == IF t = "T1154" THEN <<"Linux">> ELSE <<"Linux", "Windows">>

\* unscanned_msg / scanned_msg / used_msg of each technique class.
unscanned_msg(t) == <<t, " was not attempted", ".">>
scanned_msg(t) == <<t, " was scanned", ".">>
used_msg(t) == <<t, " was used", ".">>

\* disabled_msg, module level.
disabled_msg == <<"This technique has been disabled. ",
                  "You can enable it from the [configuration page](../../configure).">>

\* Documents of mongo.db.telemetry, reduced to the three fields the queries read.
Events == [telem_category : {"attack", "state"},
           status : {"SCANNED", "USED"},
           technique : Tech]

\* The documents of category "attack".
AttackEvents == {e \in Events : e.telem_category = "attack"}

VARIABLES
    enabled,      \* AttackConfig.get_technique_values(): technique -> bool
    telemetry,    \* mongo.db.telemetry, in insertion order
    schema,       \* what get_config_schema_per_attack_technique(SCHEMA) yields now
    cache,        \* cls.config_schema_per_attack_technique, per technique class
    mitigations,  \* AttackMitigations collection: technique -> optional document
    call,         \* the call in progress (get_tech_base_data / technique_status)
    ret,          \* what the last completed call returned, with its history
    prev,         \* what the get_message_by_status call before that returned
    everUsed      \* history: technique_status has returned USED for the technique

vars == <<enabled, telemetry, schema, cache, mitigations, call, ret, prev, everUsed>>

\* ------------------------------------------------------------ optionals
None == [some |-> FALSE, val |-> <<>>]
Some(v) == [some |-> TRUE, val |-> v]

\* Python truthiness of an optional dict: None and {} are falsy.
Truthy(o) == o.some /\ o.val # <<>>

\* ------------------------------------------------------- call records
\* No call in progress.
NoCall == [op |-> "none", tech |-> "", pc |-> "", status |-> "",
           enabledSeen |-> FALSE, usedBefore |-> FALSE, queries |-> 0, tel0 |-> 0]

\* The frame of a call of op on technique class t that starts now.
\* The history it starts with: whether the technique is enabled now, whether
\* technique_status has returned USED for it before, the telemetry so far.
Enter(op, t) ==
    [NoCall EXCEPT !.op = op, !.tech = t, !.enabledSeen = enabled[t],
                   !.usedBefore = everUsed[t], !.tel0 = Len(telemetry)]

\* Nothing returned yet.  The fields after entry are history: what the call
\* read and did, kept so that a property can speak about the finished call.
NoRet == [op |-> "none", tech |-> "", outcome |-> "none", status |-> "",
          message |-> <<>>, entry |-> [status |-> ""], error |-> "",
          enabledSeen |-> FALSE, queries |-> 0, tel0 |-> 0, tel1 |-> 0,
          lookups |-> 0, found |-> FALSE, gate |-> <<>>, base |-> <<>>,
          usedBefore |-> FALSE, cached |-> FALSE, wrapped |-> FALSE,
          wrapEnabled |-> FALSE, data |-> <<>>]

\* ------------------------------------------------------- configuration
\* _is_enabled_in_config
_is_enabled_in_config(t) == enabled[t]

\* ---------------------------------------------------- technique_status
\* find_one with the "data.technique" key left out of the query.
find_one_any_technique(tel, status, t) ==
    \E i \in 1..Len(tel) :
        /\ tel[i].telem_category = "attack"
        /\ tel[i].status = status

\* mongo.db.telemetry.find_one({"telem_category": "attack",
\*                              "data.status": status, "data.technique": tech_id})
find_one(tel, status, t) ==
    \E i \in 1..Len(tel) :
        /\ tel[i].telem_category = "attack"
        /\ tel[i].status = status
        /\ tel[i].technique = t

\* technique_status returns status s to its caller, from frame c.  Called on
\* its own the value is the result; inside get_tech_base_data the build goes on.
StatusReturned(c, s) ==
    IF c.op = "technique_status"
    THEN /\ ret' = [NoRet EXCEPT !.op = c.op, !.tech = c.tech, !.outcome = "value",
                                 !.status = s, !.enabledSeen = c.enabledSeen,
                                 !.usedBefore = c.usedBefore,
                                 !.queries = c.queries, !.tel0 = c.tel0,
                                 !.tel1 = Len(telemetry)]
         /\ call' = NoCall
         /\ everUsed' = [everUsed EXCEPT ![c.tech] = @ \/ s = "USED"]
    ELSE /\ call' = [c EXCEPT !.pc = "build", !.status = s]
         /\ UNCHANGED <<ret, everUsed>>

\* technique_status without its first branch: the queries always run.
technique_status_enabled_unchecked(c) ==
    /\ call' = [c EXCEPT !.pc = "used"]
    /\ UNCHANGED <<ret, everUsed>>
    /\ UNCHANGED <<enabled, telemetry, schema, cache, mitigations, prev>>

\* if not cls._is_enabled_in_config(): return ScanStatus.DISABLED.value
technique_status_enabled(c) ==
    /\ IF ~_is_enabled_in_config(c.tech)
       THEN StatusReturned(c, "DISABLED")
       ELSE /\ call' = [c EXCEPT !.pc = "used"]
            /\ UNCHANGED <<ret, everUsed>>
    /\ UNCHANGED <<enabled, telemetry, schema, cache, mitigations, prev>>

\* The two elif branches in the other order: SCANNED is looked for first.
technique_status_used_scanned_first ==
    /\ call.pc = "used"
    /\ LET c == [call EXCEPT !.queries = @ + 1]
       IN  IF find_one(telemetry, "SCANNED", c.tech)
           THEN StatusReturned(c, "SCANNED")
           ELSE IF find_one(telemetry, "USED", c.tech)
           THEN StatusReturned(c, "USED")
           ELSE /\ call' = [c EXCEPT !.pc = "scanned"]
                /\ UNCHANGED <<ret, everUsed>>
    /\ UNCHANGED <<enabled, telemetry, schema, cache, mitigations, prev>>

\* elif find_one(... USED ...): return ScanStatus.USED.value
technique_status_used ==
    /\ call.pc = "used"
    /\ LET c == [call EXCEPT !.queries = @ + 1]
       IN  IF find_one(telemetry, "USED", c.tech)
           THEN StatusReturned(c, "USED")
           ELSE /\ call' = [c EXCEPT !.pc = "scanned"]
                /\ UNCHANGED <<ret, everUsed>>
    /\ UNCHANGED <<enabled, telemetry, schema, cache, mitigations, prev>>

\* elif find_one(... SCANNED ...): return SCANNED, else: return UNSCANNED
technique_status_scanned ==
    /\ call.pc = "scanned"
    /\ LET c == [call EXCEPT !.queries = @ + 1]
       IN  IF find_one(telemetry, "SCANNED", c.tech)
           THEN StatusReturned(c, "SCANNED")
           ELSE StatusReturned(c, "UNSCANNED")
    /\ UNCHANGED <<enabled, telemetry, schema, cache, mitigations, prev>>

\* A caller invokes cls.technique_status().
technique_status(t) ==
    /\ call = NoCall
    /\ technique_status_enabled(Enter("technique_status", t))

\* ------------------------------------------------------- environment
\* A monkey reports telemetry: a document is inserted, none is ever removed.
InsertTelemetry(e) ==
    /\ Len(telemetry) < MaxLog
    /\ telemetry' = Append(telemetry, e)
    /\ UNCHANGED <<enabled, schema, cache, mitigations, call, ret, prev, everUsed>>

\* The user switches a technique on or off in the ATT&CK configuration.
SetEnabled(t) ==
    /\ enabled' = [enabled EXCEPT ![t] = ~@]
    /\ UNCHANGED <<telemetry, schema, cache, mitigations, call, ret, prev, everUsed>>

\* ------------------------------------------------------------- strings
RECURSIVE lstrip(_, _)
lstrip(s, ch) == IF s # <<>> /\ Head(s) = ch THEN lstrip(Tail(s), ch) ELSE s

RECURSIVE rstrip(_, _)
rstrip(s, ch) ==
    IF s # <<>> /\ s[Len(s)] = ch THEN rstrip(SubSeq(s, 1, Len(s) - 1), ch) ELSE s

\* str.rstrip in place of str.strip: only trailing occurrences are removed.
strip_trailing(s, ch) == rstrip(s, ch)

\* str.strip(chars) with a single character: every leading and every trailing
\* occurrence of it is removed.
strip(s, ch) == rstrip(lstrip(s, ch), ch)

\* sep.join(parts)
RECURSIVE join(_, _)
join(sep, parts) ==
    IF parts = <<>> THEN <<>>
    ELSE IF Len(parts) = 1 THEN parts[1]
    ELSE parts[1] \o sep \o join(sep, Tail(parts))

\* --------------------------------------------------------------- dicts
\* key in d
Has(d, k) == \E i \in 1..Len(d) : d[i][1] = k

\* d[key]
Get(d, k) == d[CHOOSE i \in 1..Len(d) : d[i][1] = k][2]

\* ------------------------------------------------------ the Gate Index
\* Values get_config_schema_per_attack_technique can yield:
\* technique -> config type -> field names.
GateIndexes ==
    { <<>>,
      << <<"T1110", << <<"Brute force", <<"threads_count">> >> >> >> >>,
      << <<"T1154", << <<"Post breach", <<"Trap command">> >> >> >> >>,
      << <<"T1154", << <<"Post breach", <<"Trap command", "Job scheduling">> >>,
                       <<"System info", <<>> >> >> >>,
         <<"T1110", <<>> >> >> }

\* ConfigSchemaPerAttackTechnique().get_config_schema_per_attack_technique(SCHEMA)
get_config_schema_per_attack_technique == schema

\* ------------------------------------------------ get_message_by_status
\* _get_relevant_config_values: one "- <config type> (em dash) <fields><br/>"
\* per config type of the technique, in dict order.  The token " -- " stands
\* for the source's " \u2014 ".
\* The field names of one config type, each as a string.
strs(names) == [i \in 1..Len(names) |-> <<names[i]>>]

RECURSIVE config_options(_)
config_options(types) ==
    IF types = <<>> THEN <<>>
    ELSE <<"- ", types[1][1], " -- ">> \o join(<<", ">>, strs(types[1][2])) \o <<"<br/>">>
         \o config_options(Tail(types))

_get_relevant_config_values(t, g) == config_options(Get(g, t))

\* The reasons list with the test on relevant_systems loosened from
\* "exactly one" to "at least one".
reasons_of_any_system(t, g) ==
    (IF Len(relevant_systems(t)) >= 1
     THEN << <<"- Monkey did not run on any ", relevant_systems(t)[1], " systems.">> >>
     ELSE <<>>)
    \o
    (IF Has(g, t)
     THEN << <<"- The following configuration options were disabled or empty:<br/>">>
             \o _get_relevant_config_values(t, g) >>
     ELSE <<>>)

\* The reasons list of _get_unscanned_msg_with_reasons.
reasons_of(t, g) ==
    (IF Len(relevant_systems(t)) = 1
     THEN << <<"- Monkey did not run on any ", relevant_systems(t)[1], " systems.">> >>
     ELSE <<>>)
    \o
    (IF Has(g, t)
     THEN << <<"- The following configuration options were disabled or empty:<br/>">>
             \o _get_relevant_config_values(t, g) >>
     ELSE <<>>)

\* _get_unscanned_msg_with_reasons(unscanned_msg, config_schema_per_attack_technique)
_get_unscanned_msg_with_reasons(t, msg, g) ==
    LET reasons == reasons_of(t, g)
    IN  IF reasons # <<>>
        THEN strip(msg, ".")
             \o <<" due to one of the following reasons:", "\n">>
             \o join(<<"\n">>, reasons)
        ELSE msg

\* The value cls.config_schema_per_attack_technique holds after
\* get_message_by_status(status): filled in when the status is UNSCANNED and
\* the attribute is falsy.
cache_after(t, status) ==
    IF status = "UNSCANNED" /\ ~Truthy(cache[t])
    THEN Some(get_config_schema_per_attack_technique)
    ELSE cache[t]

\* get_message_by_status composing the unscanned message from the attribute
\* as it was on entry (None read as an empty dict), not as just filled in.
message_by_status_before_fill(t, status) ==
    IF status = "DISABLED" THEN disabled_msg
    ELSE IF status = "UNSCANNED"
         THEN _get_unscanned_msg_with_reasons(t, unscanned_msg(t), cache[t].val)
    ELSE IF status = "SCANNED" THEN scanned_msg(t)
    ELSE used_msg(t)

\* The string get_message_by_status(status) returns.
message_by_status(t, status) ==
    IF status = "DISABLED" THEN disabled_msg
    ELSE IF status = "UNSCANNED"
         THEN _get_unscanned_msg_with_reasons(t, unscanned_msg(t), cache_after(t, status).val)
    ELSE IF status = "SCANNED" THEN scanned_msg(t)
    ELSE used_msg(t)

\* A caller invokes cls.get_message_by_status(status).
get_message_by_status(t, status) ==
    /\ call = NoCall
    /\ cache' = [cache EXCEPT ![t] = cache_after(t, status)]
    /\ ret' = [NoRet EXCEPT !.op = "get_message_by_status", !.tech = t,
                            !.outcome = "value", !.status = status,
                            !.message = message_by_status(t, status),
                            !.cached = Truthy(cache[t]),
                            !.gate = cache_after(t, status).val]
    /\ prev' = ret
    /\ UNCHANGED <<enabled, telemetry, schema, mitigations, call, everUsed>>

\* Messages a technique class may define as its unscanned_msg.
RECURSIVE MsgsOfLen(_)
MsgsOfLen(n) ==
    IF n = 0 THEN {<<>>}
    ELSE {Append(m, ch) : m \in MsgsOfLen(n - 1), ch \in {"a", "."}}

BaseMsgs == UNION {MsgsOfLen(n) : n \in 0..MaxMsgLen}

\* A caller invokes cls._get_unscanned_msg_with_reasons(msg, g).
get_unscanned_msg_with_reasons(t, msg, g) ==
    /\ call = NoCall
    /\ ret' = [NoRet EXCEPT !.op = "_get_unscanned_msg_with_reasons", !.tech = t,
                            !.outcome = "value", !.status = "UNSCANNED",
                            !.message = _get_unscanned_msg_with_reasons(t, msg, g),
                            !.base = msg, !.gate = g]
    /\ UNCHANGED <<enabled, telemetry, schema, cache, mitigations, call, prev, everUsed>>

\* A new report is requested; the configuration may have changed since the
\* last one.  The code does nothing at this point.
NewReportRequest(g) ==
    /\ call = NoCall
    /\ schema' = g
    /\ ret' = NoRet
    /\ prev' = NoRet
    /\ UNCHANGED <<enabled, telemetry, cache, mitigations, call, everUsed>>

\* ------------------------------------------------------ report entries
\* technique_title: AttackConfig.get_technique(cls.tech_id)["title"]
technique_title(t) == <<t, " title">>

\* An AttackMitigations collection with a document for one technique and
\* none for the other.
Catalog ==
    [t \in Tech |-> IF t = "T1110"
                    THEN Some(<<"mitigation 1", "mitigation 2">>)
                    ELSE None]

\* AttackMitigations.get_mitigation_by_technique_id(str(cls.tech_id)):
\* the document of the technique, or none.
get_mitigation_by_technique_id(t) == mitigations[t]

\* get_mitigation_by_status looking the mitigations up for SCANNED as well.
get_mitigation_by_status_also_scanned(t, status) ==
    IF status \in {"USED", "SCANNED"}
    THEN LET doc == get_mitigation_by_technique_id(t)
         IN  IF doc.some
             THEN [error |-> "", part |-> [mitigations |-> doc.val], lookups |-> 1]
             ELSE [error |-> "MitigationMissing", part |-> <<>>, lookups |-> 1]
    ELSE [error |-> "", part |-> <<>>, lookups |-> 0]

\* get_mitigation_by_status swallowing the missing document: an empty dict.
get_mitigation_by_status_swallow(t, status) ==
    IF status = "USED"
    THEN LET doc == get_mitigation_by_technique_id(t)
         IN  IF doc.some
             THEN [error |-> "", part |-> [mitigations |-> doc.val], lookups |-> 1]
             ELSE [error |-> "", part |-> <<>>, lookups |-> 1]
    ELSE [error |-> "", part |-> <<>>, lookups |-> 0]

\* get_mitigation_by_status(status): the dict to merge into the entry
\* (part, empty or with the key "mitigations"), or the error raised when the
\* technique has no mitigation document; lookups counts the catalog reads.
get_mitigation_by_status(t, status) ==
    IF status = "USED"
    THEN LET doc == get_mitigation_by_technique_id(t)
         IN  IF doc.some
             THEN [error |-> "", part |-> [mitigations |-> doc.val], lookups |-> 1]
             ELSE [error |-> "MitigationMissing", part |-> <<>>, lookups |-> 1]
    ELSE [error |-> "", part |-> <<>>, lookups |-> 0]

\* data.update(part)
update(data, part) == part @@ data

\* The dict both builders assemble: status, title and message, then the
\* mitigation part.  Composing the message may fill the class-level cache;
\* a missing mitigation document ends the call with the error, after that.
Build(r, t, status) ==
    LET data == [status |-> status, title |-> technique_title(t),
                 message |-> message_by_status(t, status)]
        mit == get_mitigation_by_status(t, status)
    IN  /\ cache' = [cache EXCEPT ![t] = cache_after(t, status)]
        /\ ret' = [r EXCEPT !.tech = t, !.status = status,
                            !.outcome = IF mit.error = "" THEN "value" ELSE "error",
                            !.error = mit.error,
                            !.entry = IF mit.error = ""
                                      THEN update(data, mit.part)
                                      ELSE NoRet.entry,
                            !.lookups = mit.lookups,
                            !.found = mitigations[t].some]
        /\ call' = NoCall

\* A caller invokes cls.get_tech_base_data(): technique_status first.
get_tech_base_data(t) ==
    /\ call = NoCall
    /\ technique_status_enabled(Enter("get_tech_base_data", t))

\* get_tech_base_data once technique_status has returned.
get_tech_base_data_build ==
    /\ call.pc = "build"
    /\ Build([NoRet EXCEPT !.op = "get_tech_base_data",
                           !.enabledSeen = call.enabledSeen,
                           !.queries = call.queries],
             call.tech, call.status)
    /\ UNCHANGED <<enabled, telemetry, schema, mitigations, prev, everUsed>>

\* check_if_disabled_in_config without the configuration test.
check_if_disabled_in_config_passthrough(t, s) == s

\* check_if_disabled_in_config, the function is_status_disabled returns:
\* s is the status the wrapped get_technique_status_and_data would return.
check_if_disabled_in_config(t, s) ==
    IF ~_is_enabled_in_config(t) THEN "DISABLED" ELSE s

\* A technique's get_report_data calls its wrapped status function.
is_status_disabled(t, s) ==
    /\ call = NoCall
    /\ ret' = [NoRet EXCEPT !.op = "is_status_disabled", !.tech = t,
                            !.outcome = "value",
                            !.status = check_if_disabled_in_config(t, s),
                            !.data = IF ~_is_enabled_in_config(t)
                                     THEN <<>> ELSE <<"data">>,
                            !.enabledSeen = _is_enabled_in_config(t)]
    /\ UNCHANGED <<enabled, telemetry, schema, cache, mitigations, call, prev, everUsed>>

\* A caller invokes cls.get_base_data_by_status(status).  The status is the
\* caller's; wrapped records that it is the one the wrapped status function
\* has just returned for this technique.
get_base_data_by_status(t, status) ==
    /\ call = NoCall
    /\ LET w == ret.op = "is_status_disabled" /\ ret.tech = t /\ ret.status = status
       IN  Build([NoRet EXCEPT !.op = "get_base_data_by_status",
                               !.enabledSeen = _is_enabled_in_config(t),
                               !.wrapped = w,
                               !.wrapEnabled = w /\ ret.enabledSeen],
                 t, status)
    /\ UNCHANGED <<enabled, telemetry, schema, mitigations, prev, everUsed>>

\* ------------------------------------------------------ specifications
\* Status resolution against a growing telemetry collection and a
\* configuration that is edited meanwhile.
InitStatus ==
    /\ enabled \in [Tech -> BOOLEAN]
    /\ telemetry = <<>>
    /\ schema = <<>>
    /\ cache = [t \in Tech |-> None]
    /\ mitigations = [t \in Tech |-> None]
    /\ call = NoCall
    /\ ret = NoRet
    /\ prev = NoRet
    /\ everUsed = [t \in Tech |-> FALSE]

NextStatus ==
    \/ \E t \in Tech : technique_status(t)
    \/ technique_status_used
    \/ technique_status_scanned
    \/ \E e \in Events : InsertTelemetry(e)
    \/ \E t \in Tech : SetEnabled(t)

SpecStatus == InitStatus /\ [][NextStatus]_vars

\* Message composition across report requests.
InitCompose ==
    /\ enabled = [t \in Tech |-> TRUE]
    /\ telemetry = <<>>
    /\ schema \in GateIndexes
    /\ cache = [t \in Tech |-> None]
    /\ mitigations = [t \in Tech |-> None]
    /\ call = NoCall
    /\ ret = NoRet
    /\ prev = NoRet
    /\ everUsed = [t \in Tech |-> FALSE]

NextCompose ==
    \/ \E t \in Tech, s \in ScanStatus : get_message_by_status(t, s)
    \/ \E g \in GateIndexes : NewReportRequest(g)

SpecCompose == InitCompose /\ [][NextCompose]_vars

\* The reasons of an unscanned message, for every message and Gate Index.
InitReasons ==
    /\ enabled = [t \in Tech |-> TRUE]
    /\ telemetry = <<>>
    /\ schema = <<>>
    /\ cache = [t \in Tech |-> None]
    /\ mitigations = [t \in Tech |-> None]
    /\ call = NoCall
    /\ ret = NoRet
    /\ prev = NoRet
    /\ everUsed = [t \in Tech |-> FALSE]

NextReasons ==
    \E t \in Tech, msg \in BaseMsgs, g \in GateIndexes :
        get_unscanned_msg_with_reasons(t, msg, g)

SpecReasons == InitReasons /\ [][NextReasons]_vars

\* Report entries.
InitBuild ==
    /\ enabled = [t \in Tech |-> TRUE]
    /\ telemetry = <<>>
    /\ schema \in {g \in GateIndexes : Len(g) = 2}
    /\ cache = [t \in Tech |-> None]
    /\ mitigations = Catalog
    /\ call = NoCall
    /\ ret = NoRet
    /\ prev = NoRet
    /\ everUsed = [t \in Tech |-> FALSE]

NextBuild ==
    \/ \E t \in Tech : get_tech_base_data(t)
    \/ technique_status_used
    \/ technique_status_scanned
    \/ get_tech_base_data_build
    \/ \E t \in Tech, s \in ScanStatus \ {"DISABLED"} : is_status_disabled(t, s)
    \/ \E t \in Tech, s \in ScanStatus : get_base_data_by_status(t, s)
    \/ \E e \in AttackEvents : InsertTelemetry(e)
    \/ \E t \in Tech : SetEnabled(t)

SpecBuild == InitBuild /\ [][NextBuild]_vars

\* ============================================================== claims
\* The telemetry as it was when it held n documents (documents are only
\* ever appended).
LogAt(n) == SubSeq(telemetry, 1, n)

\* The statuses of the attack telemetry recorded for technique t in tel.
Seen(tel, t) ==
    {tel[i].status : i \in {j \in 1..Len(tel) : /\ tel[j].telem_category = "attack"
                                                 /\ tel[j].technique = t}}

\* C1: for a technique that is not enabled, technique_status returns
\* DISABLED whatever the telemetry holds, and queries the telemetry not once.
C1_DisabledShortCircuit ==
    (ret.op = "technique_status" /\ ~ret.enabledSeen)
        => (ret.status = "DISABLED" /\ ret.queries = 0)

\* technique_status has returned for a disabled technique of which the
\* telemetry holds a USED attack event.
C1_Witness ==
    /\ ret.op = "technique_status"
    /\ ~ret.enabledSeen
    /\ "USED" \in Seen(LogAt(ret.tel0), ret.tech)
    /\ ret.status = "DISABLED"

\* C2: for an enabled technique and a telemetry that stays as it is during
\* the call, technique_status returns USED if an attack event with status
\* USED exists for the technique, else SCANNED if one with status SCANNED
\* exists, else UNSCANNED; nothing else in the telemetry matters.
C2_StatusByPrecedence ==
    (ret.op = "technique_status" /\ ret.enabledSeen /\ ret.tel0 = ret.tel1)
        => LET S == Seen(LogAt(ret.tel1), ret.tech)
           IN  ret.status = IF "USED" \in S THEN "USED"
                            ELSE IF "SCANNED" \in S THEN "SCANNED"
                            ELSE "UNSCANNED"

\* USED was returned from a telemetry that holds both a USED and a SCANNED
\* attack event of the technique.
C2_Witness ==
    /\ ret.op = "technique_status"
    /\ ret.enabledSeen
    /\ ret.tel0 = ret.tel1
    /\ Seen(LogAt(ret.tel1), ret.tech) = {"USED", "SCANNED"}
    /\ ret.status = "USED"

\* C3: once technique_status has returned USED for a technique, every later
\* call for that technique, made while it is enabled, returns USED, whatever
\* was appended to the telemetry meanwhile or during the call.
C3_UsedNeverRegresses ==
    (ret.op = "technique_status" /\ ret.enabledSeen /\ ret.usedBefore)
        => ret.status = "USED"

\* A later call returned USED again, with a SCANNED event of the technique
\* appended while that call was running.
C3_Witness ==
    /\ ret.op = "technique_status"
    /\ ret.enabledSeen
    /\ ret.usedBefore
    /\ ret.status = "USED"
    /\ ret.tel1 > ret.tel0
    /\ "SCANNED" \in Seen(LogAt(ret.tel1), ret.tech)
    /\ "SCANNED" \notin Seen(LogAt(ret.tel0), ret.tech)

\* The report-entry builders.
Builders == {"get_tech_base_data", "get_base_data_by_status"}

\* C4 as stated: get_base_data_by_status returns an entry with status
\* DISABLED and the disabled message whenever the technique is not enabled,
\* whatever status the caller supplied.
C4_Original ==
    (ret.op = "get_base_data_by_status" /\ ret.outcome = "value" /\ ~ret.enabledSeen)
        => (ret.entry.status = "DISABLED" /\ ret.entry.message = disabled_msg)

\* C4 amended: get_base_data_by_status keeps the status its caller supplies;
\* the entry has status DISABLED and the disabled message, and no
\* mitigations, when that status is the one the is_status_disabled wrapper
\* returned on finding the technique not enabled.
C4_ShortCircuitInWrapper ==
    (ret.op = "get_base_data_by_status")
        => /\ ret.outcome = "value" => ret.entry.status = ret.status
           /\ (ret.wrapped /\ ~ret.wrapEnabled)
                  => /\ ret.outcome = "value"
                     /\ ret.entry.status = "DISABLED"
                     /\ ret.entry.message = disabled_msg
                     /\ "mitigations" \notin DOMAIN ret.entry

\* An entry was built from the status the wrapper returned for a technique
\* that was not enabled.
C4_Witness ==
    /\ ret.op = "get_base_data_by_status"
    /\ ret.wrapped
    /\ ~ret.wrapEnabled
    /\ ret.entry.status = "DISABLED"

\* C5 as stated: the unscanned message composed in a report request is built
\* from the Gate Index of the configuration current at that request.
C5_GateIndexNeverStale ==
    (ret.op = "get_message_by_status" /\ ret.status = "UNSCANNED")
        => ret.message
             = _get_unscanned_msg_with_reasons(ret.tech, unscanned_msg(ret.tech), schema)

\* C6: an entry returned by get_tech_base_data or get_base_data_by_status
\* has a mitigations field exactly when its status is USED, and then the
\* field is the technique's mitigation sequence of the catalog.
C6_MitigationsIffUsed ==
    (ret.op \in Builders /\ ret.outcome = "value")
        => /\ "mitigations" \in DOMAIN ret.entry <=> ret.entry.status = "USED"
           /\ ret.entry.status = "USED"
                  => /\ mitigations[ret.tech].some
                     /\ ret.entry.mitigations = mitigations[ret.tech].val

\* get_tech_base_data returned a USED entry with its mitigations.
C6_Witness ==
    /\ ret.op = "get_tech_base_data"
    /\ ret.outcome = "value"
    /\ ret.entry.status = "USED"
    /\ "mitigations" \in DOMAIN ret.entry
    /\ ret.entry.mitigations # <<>>

\* C7: a build with status USED for a technique without a mitigation
\* document ends in the error MitigationMissing and returns no entry; no
\* USED entry lacks the mitigations field; the catalog is not read for any
\* other status.
C7_MitigationMissing ==
    (ret.op \in Builders)
        => /\ (ret.status = "USED" /\ ~ret.found)
                  => (ret.outcome = "error" /\ ret.error = "MitigationMissing")
           /\ (ret.outcome = "value" /\ ret.status = "USED")
                  => "mitigations" \in DOMAIN ret.entry
           /\ ret.status # "USED" => (ret.lookups = 0 /\ ret.outcome = "value")

\* get_tech_base_data resolved USED for a technique without a mitigation
\* document and ended in the error.
C7_Witness ==
    /\ ret.op = "get_tech_base_data"
    /\ ret.status = "USED"
    /\ ~ret.found
    /\ ret.outcome = "error"

\* The lines of a message: its tokens between newlines.
RECURSIVE Lines(_)
Lines(msg) ==
    IF \A i \in 1..Len(msg) : msg[i] # "\n" THEN <<msg>>
    ELSE LET i == CHOOSE k \in 1..Len(msg) :
                      msg[k] = "\n" /\ \A j \in 1..(k - 1) : msg[j] # "\n"
         IN  <<SubSeq(msg, 1, i - 1)>> \o Lines(SubSeq(msg, i + 1, Len(msg)))

\* The reason lines of a composed unscanned message: the lines after the first.
ReasonLines(msg) == Tail(Lines(msg))

\* The field names of one config type, comma separated.
RECURSIVE FieldList(_, _)
FieldList(f, i) ==
    IF i > Len(f) THEN <<>>
    ELSE (IF i > 1 THEN <<", ", f[i]>> ELSE <<f[i]>>) \o FieldList(f, i + 1)

\* One item per config type from the i-th on, in the order of the Gate Index.
RECURSIVE ConfigItems(_, _)
ConfigItems(types, i) ==
    IF i > Len(types) THEN <<>>
    ELSE <<"- ", types[i][1], " -- ">> \o FieldList(types[i][2], 1) \o <<"<br/>">>
         \o ConfigItems(types, i + 1)

OSHead == "- Monkey did not run on any "
ConfigHead == "- The following configuration options were disabled or empty:<br/>"

\* The technique of the last call has exactly one relevant system.
OneSystem == Len(relevant_systems(ret.tech)) = 1

\* The technique of the last call is a key of the Gate Index it was given.
InGate == Has(ret.gate, ret.tech)

\* C8: the reasons of an unscanned message hold the OS line iff the
\* technique has exactly one relevant system, and the configuration reason
\* iff the technique is a key of the Gate Index; the OS line comes first;
\* the configuration reason lists one item per config type with its field
\* names, types and fields in the order of the Gate Index.
C8_Reasons ==
    (ret.op = "_get_unscanned_msg_with_reasons")
        => LET r == ReasonLines(ret.message)
           IN  /\ Len(r) = (IF OneSystem THEN 1 ELSE 0) + (IF InGate THEN 1 ELSE 0)
               /\ (\E i \in 1..Len(r) : Head(r[i]) = OSHead) <=> OneSystem
               /\ (\E i \in 1..Len(r) : Head(r[i]) = ConfigHead) <=> InGate
               /\ OneSystem
                      => r[1] = <<OSHead, relevant_systems(ret.tech)[1], " systems.">>
               /\ InGate
                      => r[Len(r)] = <<ConfigHead>>
                                     \o ConfigItems(Get(ret.gate, ret.tech), 1)

\* Both reasons were produced, the configuration reason with two config
\* types, one of them with two fields.
C8_Witness ==
    /\ ret.op = "_get_unscanned_msg_with_reasons"
    /\ OneSystem
    /\ InGate
    /\ Len(ReasonLines(ret.message)) = 2
    /\ Len(Get(ret.gate, ret.tech)) = 2

\* msg without its last token when that is a period.
DropTrailingPeriod(msg) ==
    IF msg # <<>> /\ msg[Len(msg)] = "." THEN SubSeq(msg, 1, Len(msg) - 1) ELSE msg

\* m is msg without its leading and its trailing periods.
IsStripped(m, msg) ==
    \E i \in 1..(Len(msg) + 1), j \in 0..Len(msg) :
        /\ m = SubSeq(msg, i, j)
        /\ \A k \in 1..Len(msg) : (k < i \/ k > j) => msg[k] = "."
        /\ i <= j => (msg[i] # "." /\ msg[j] # ".")

\* C9 as stated: without reasons the message is the base message verbatim;
\* with reasons it is the base message less its one trailing period, then
\* ": due to one of the following reasons:", then the reason lines.
C9_Original ==
    (ret.op = "_get_unscanned_msg_with_reasons")
        => IF ~OneSystem /\ ~InGate
           THEN ret.message = ret.base
           ELSE /\ Lines(ret.message)[1]
                     = DropTrailingPeriod(ret.base)
                       \o <<":", " due to one of the following reasons:">>
                /\ ret.message = join(<<"\n">>, Lines(ret.message))

\* C9 amended: without reasons the message is the base message verbatim;
\* with reasons it is the base message less all its leading and all its
\* trailing periods, then " due to one of the following reasons:" and a
\* newline, then the reason lines joined by newlines.
C9_StripBothEnds ==
    (ret.op = "_get_unscanned_msg_with_reasons")
        => IF ~OneSystem /\ ~InGate
           THEN ret.message = ret.base
           ELSE LET first == Lines(ret.message)[1]
                IN  /\ Len(first) >= 1
                    /\ first[Len(first)] = " due to one of the following reasons:"
                    /\ IsStripped(SubSeq(first, 1, Len(first) - 1), ret.base)
                    /\ Len(Lines(ret.message)) >= 2
                    /\ ret.message = join(<<"\n">>, Lines(ret.message))

\* A message with reasons was composed from a base message that begins and
\* ends with a period.
C9_Witness ==
    /\ ret.op = "_get_unscanned_msg_with_reasons"
    /\ OneSystem \/ InGate
    /\ Len(ret.base) >= 3
    /\ ret.base[1] = "."
    /\ ret.base[Len(ret.base)] = "."
    /\ ret.base[2] # "."

\* Two calls of get_message_by_status in a row, for the same technique and
\* status.
Repeated ==
    /\ ret.op = "get_message_by_status"
    /\ prev.op = "get_message_by_status"
    /\ ret.tech = prev.tech
    /\ ret.status = prev.status

\* C10: two calls of get_message_by_status in a row for the same technique
\* and status return the same string, also when the first fills the
\* class-level cache and the second reads it; and no step changes a Gate
\* Index that is already populated.
C10_Idempotent ==
    /\ [](Repeated => ret.message = prev.message)
    /\ [][\A t \in Tech : Truthy(cache[t]) => cache'[t] = cache[t]]_vars

\* The first of two calls filled the cache, the second read it, and the
\* message has a configuration reason.
C10_Witness ==
    /\ Repeated
    /\ ret.status = "UNSCANNED"
    /\ ~prev.cached
    /\ ret.cached
    /\ Has(ret.gate, ret.tech)

====
